---- MODULE Spec2Model ----
(***************************************************************************)
(* TDWS28XX::PixelDriver (src/src/TDWS28XX.cpp, src/src/TDWS28XX.h).       *)
(*                                                                         *)
(* One PixelDriver object, the eDMA channel it owns and the caller's       *)
(* thread.  The DMA channel executes a ring of transfer control            *)
(* descriptors (TCDs) built by configureDma(); a hardware step of the      *)
(* model is one completed major loop of the TCD held in the channel        *)
(* registers, followed by the scatter/gather load of its successor.        *)
(*                                                                         *)
(* Addresses are word indices relative to ip->bptr; the two constants      *)
(* Zeros and Ones live at the negative addresses ZerosAddr and OnesAddr.   *)
(*                                                                         *)
(* Four further specifications share the variables: LifecycleSpec has      *)
(* several driver objects constructed, begun and destroyed against the     *)
(* static instanceCount and instances[]; CodecSpec has setLed(), getLed()  *)
(* and setChannelType() on the frame buffer, a 32-bit word being the set   *)
(* of the positions of its 1 bits; SegmentsSpec runs the transfer on strip *)
(* lengths around the limit of four data segments; BlockingSpec takes      *)
(* begin() in steps, around the loop that polls the PLL for lock.          *)
(***************************************************************************)
EXTENDS Integers, Sequences, FiniteSets, TLC

(* ------------------------------------------------------------------ *)
(* Program constants                                                  *)
(* ------------------------------------------------------------------ *)

\* static unsigned const BitTimesPerResetTime = 240;
BitTimesPerResetTime == 240

\* static uint16_t const MaxDMAIterationsPerTCD = DMA_TCD_BITER_MASK; (0x7FFF)
MaxDMAIterationsPerTCD == 32767

\* DMASetting dmasDataSegments[4];
MaxDataSegments == 4

\* &Zeros and &Ones: two addresses outside the frame buffer.
ZerosAddr == -1
OnesAddr == -2

\* enum FlexIOModule { FLEXIO1 = 0, FLEXIO2 = 1 }
FLEXIO2 == 1

\* The FlexIO units a driver can own.
Units == 0..FLEXIO2

\* nullptr in instances[]
NoDriver == 0

\* The driver whose pipeline and pixel store are modelled in detail.
This == 1

(* ------------------------------------------------------------------ *)
(* Bounds of the model                                                *)
(* ------------------------------------------------------------------ *)

\* Strip lengths tried: 0, 1 and k * 1366 LEDs for k in 1..MaxLedBlocks.
\* 1366 LEDs need 32784 (24 bit) or 43712 (32 bit) words: two data segments;
\* 2732 LEDs need three.
MaxLedBlocks == 2

LedCounts == {0, 1} \cup {1366 * k : k \in 1..MaxLedBlocks}

BufferModes == {"SINGLE_BUFFER_BLOCKING", "DOUBLE_BUFFER", "SINGLE_BUFFER"}

\* Driver objects of the lifecycle model.
MaxDrivers == 2

Drivers == 1..MaxDrivers

\* Constructor calls made in one run of the lifecycle model.
MaxConstructions == 3

ColorCapabilities == {"TRICOLOR", "QUADCOLOR"}

(* ------------------------------------------------------------------ *)
(* State                                                              *)
(* ------------------------------------------------------------------ *)

VARIABLES
  ip,                    \* const InternalProperties *ip: [leds, cc, bm, bsz]
  dmasDataSegmentsCount, \* const unsigned dmasDataSegmentsCount
  flexIOModule,          \* FlexIOModule flexIOModule
  pFlex,                 \* FlexIOHandler *pFlex, as "non-null"
  activeBuffer,          \* volatile uint32_t *activeBuffer (word index)
  inactiveBuffer,        \* volatile uint32_t *inactiveBuffer (word index)
  dmas,                  \* the DMASetting TCDs in memory, by name
  ch,                    \* the TCD held in the DMA channel's registers
  loaded,                \* name of the DMASetting the channel's TCD was loaded from
  erq,                   \* DMA_ERQ bit of the channel (dmaEnabled)
  dmaInt,                \* DMA_INT bit of the channel (interrupt request pending)
  isrAttached,           \* dmaChannel.attachInterrupt() done
  instances,             \* static PixelDriver *instances[2]: the driver registered per unit (NoDriver: nullptr)
  instanceCount,         \* static unsigned instanceCount, modulo 2^32 as the residue nearest 0 (-1: 4294967295)
  pllPowerdown,          \* CCM_ANALOG_PLL_VIDEO_POWERDOWN bit
  pc,                    \* position of the caller inside flipBuffers()
  lastReady,             \* value returned by the last bufferReady() call
  flipsPending,          \* history: flipBuffers() swaps since begin()/the last dmaIsr (0..3, 3 = more)
  cyclesSinceFlip,       \* history: frame cycles begun since the last flipBuffers() returned (0..2, 2 = more)
  transferDone,          \* history: no flush-triggered transfer is in flight
  drv,                   \* the PixelDriver objects of the program, by identity: their lifecycle fields
  flexEnabled,           \* FLEXEN of each FlexIO unit's CTRL register
  pinMode,               \* direction of each set of three I/O pins
  lastCall,              \* the constructor/begin()/destructor call just made and what it returned
  constructions,         \* history: number of constructor calls made
  pllLock,               \* CCM_ANALOG_PLL_VIDEO_LOCK bit
  channelTypes,          \* ChannelType channelTypes[32]
  bits,                  \* the frame buffer at ip->bptr: the set of <<word, bit>> that are 1
  lastOp,                \* the setLed()/getLed()/setChannelType() call just made: its arguments and the Color returned
  lastWritten,           \* history: <<base, channel, ledIndex>> |-> raw of the Color last passed to setLed()
  writes                 \* history: number of setLed()/setChannelType() calls made

\* The fields of the drivers seen by the lifecycle operations.
lifecycleVars == <<drv, flexEnabled, pinMode, lastCall, constructions, pllLock>>

\* The pixel store of the driver.
codecVars == <<channelTypes, bits, lastOp, lastWritten, writes>>

vars == <<ip, dmasDataSegmentsCount, flexIOModule, pFlex, activeBuffer, inactiveBuffer,
          dmas, ch, loaded, erq, dmaInt, isrAttached, instances, instanceCount,
          pllPowerdown, pc, lastReady, flipsPending, cyclesSinceFlip, transferDone,
          lifecycleVars, codecVars>>

\* FlexIOHandler *pFlex of a driver object: the unit whose handler it points to, or nullptr
NoUnit == -1

\* FlexPins values: pin set u (u in Units) is mappable on unit u only; NoUnitPins
\* are three pins no FlexIO unit of the driver reaches.
NoUnitPins == 2

PinChoices == Units \cup {NoUnitPins}

\* pf->mapIOPinToFlexPin(pin) != 0xff for the three pins
PinsMapped(m, pins) == pins = m

\* The storage of a driver object that does not exist.
NoObject ==
  [alive |-> FALSE, leds |-> 0, pFlex |-> NoUnit, flexIOModule |-> 0,
   flexPins |-> NoUnitPins, dmaConfigured |-> FALSE]

\* No accessor call was just made.  A 32 bit word (Color::raw, a mask) is the
\* set of the positions of its 1 bits, so raw = {} is the zero Color.
NoOp == [op |-> "none", buffer |-> 0, channel |-> 0, ledIndex |-> 0, type |-> "RGB", raw |-> {}]

\* No constructor, begin() or destructor call was just made.
NoCall == [op |-> "none", d |-> NoDriver, ok |-> TRUE]

(* ------------------------------------------------------------------ *)
(* PixelBuffer and the constructor                                    *)
(* ------------------------------------------------------------------ *)

\* ((colorCapability == QUADCOLOR) ? 32 : 24)
BitDepth(cc) == IF cc = "QUADCOLOR" THEN 32 ELSE 24

\* InternalProperties p of PixelBuffer: bsz is the size in bytes of ONE buffer half.
PixelBuffer(leds, cc, bm) ==
  [leds |-> leds, cc |-> cc, bm |-> bm, bsz |-> 4 * leds * BitDepth(cc)]

\* ip->bsz / sizeof(uint32_t)
BufferWords == ip.bsz \div 4

\* dmasDataSegmentsCount(ip->bsz / sizeof(uint32_t) / MaxDMAIterationsPerTCD + 1), capped at 4
SegmentsCount(p) ==
  LET n == ((p.bsz \div 4) \div MaxDMAIterationsPerTCD) + 1
  IN  IF n > MaxDataSegments THEN MaxDataSegments ELSE n

(* ------------------------------------------------------------------ *)
(* Transfer control descriptors                                       *)
(* ------------------------------------------------------------------ *)

DataSegmentNames == <<"Data0", "Data1", "Data2", "Data3">>

\* dmasDataSegments[i]; index 4 is the one-past-the-end reference formed by
\* dmasDataSegments[i+1] for i = 3, whose link is overwritten before use.
DataSegment(i) == IF i < MaxDataSegments THEN DataSegmentNames[i + 1] ELSE "none"

SettingNames ==
  {"PresetZeros", "SetOnes", "SetZeros", "LoopZeros"} \cup
  {DataSegmentNames[k] : k \in 1..MaxDataSegments}

\* A default-constructed DMASetting of a statically allocated driver.
EmptyTCD ==
  [SADDR |-> 0, SOFF |-> 0, BITER |-> 0, DADDR |-> "none",
   DLASTSGA |-> "none", ESG |-> FALSE, DREQ |-> FALSE, INTMAJOR |-> FALSE]

\* DMABaseClass::sourceBuffer(p, len): len bytes read as 32 bit words from p
sourceBuffer(tcd, p, len) ==
  [tcd EXCEPT !.SADDR = p, !.SOFF = 4, !.BITER = len \div 4]

\* DMABaseClass::destination(reg)
destination(tcd, reg) == [tcd EXCEPT !.DADDR = reg, !.DLASTSGA = "none"]

\* DMABaseClass::replaceSettingsOnCompletion(settings)
replaceSettingsOnCompletion(tcd, settings) ==
  [tcd EXCEPT !.DLASTSGA = settings, !.ESG = TRUE]

\* DMABaseClass::disableOnCompletion()
disableOnCompletion(tcd) == [tcd EXCEPT !.DREQ = TRUE]

(* ------------------------------------------------------------------ *)
(* configureDma(true): the descriptor ring                            *)
(* ------------------------------------------------------------------ *)

\* The for loop over the data segments (i, bptr and remaining are its variables).
RECURSIVE ConfigureDataSegments(_, _, _, _, _)
ConfigureDataSegments(d, i, n, bptr, remaining) ==
  IF i >= n THEN d
  ELSE LET sz == IF remaining >= MaxDMAIterationsPerTCD
                 THEN MaxDMAIterationsPerTCD ELSE remaining
           seg == replaceSettingsOnCompletion(
                    destination(sourceBuffer(d[DataSegment(i)], bptr, sz * 4),
                                "SHIFTBUFBIS1"),
                    DataSegment(i + 1))
       IN  ConfigureDataSegments([d EXCEPT ![DataSegment(i)] = seg],
                                 i + 1, n, bptr + MaxDMAIterationsPerTCD, remaining - sz)

\* dmasPresetZeros: zero to SHIFTBUFBIS[1], then dmasSetOnes
ConfigurePresetZeros(tcd) ==
  replaceSettingsOnCompletion(
    destination(sourceBuffer(tcd, ZerosAddr, 4), "SHIFTBUFBIS1"), "SetOnes")

\* Mutant of ConfigureSetOnes: the gate-high step reads Zeros.
ConfigureSetOnesFromZeros(tcd) ==
  replaceSettingsOnCompletion(
    destination(sourceBuffer(tcd, ZerosAddr, 4), "SHIFTBUF0"), DataSegment(0))

\* dmasSetOnes: all ones to SHIFTBUF[0], then dmasDataSegments[0]
ConfigureSetOnes(tcd) ==
  replaceSettingsOnCompletion(
    destination(sourceBuffer(tcd, OnesAddr, 4), "SHIFTBUF0"), DataSegment(0))

\* dmasSetZeros: all zeros to SHIFTBUF[0], then dmasLoopZeros
ConfigureSetZeros(tcd) ==
  replaceSettingsOnCompletion(
    destination(sourceBuffer(tcd, ZerosAddr, 4), "SHIFTBUF0"), "LoopZeros")

\* Mutant of ConfigureLoopZeros: the frame gap stops the channel in every mode.
ConfigureLoopZerosAlwaysStops(tcd, bm) ==
  disableOnCompletion(
    destination([tcd EXCEPT !.SADDR = ZerosAddr, !.SOFF = 0,
                            !.BITER = BitTimesPerResetTime], "SHIFTBUF1"))

\* Mutant of ConfigureLoopZeros: the frame gap chains back in every mode.
ConfigureLoopZerosAlwaysLoops(tcd, bm) ==
  replaceSettingsOnCompletion(
    destination([tcd EXCEPT !.SADDR = ZerosAddr, !.SOFF = 0,
                            !.BITER = BitTimesPerResetTime], "SHIFTBUF1"), "PresetZeros")

\* dmasLoopZeros: BitTimesPerResetTime zeros to SHIFTBUF[1] from a source that
\* does not advance; it stops the channel in SINGLE_BUFFER_BLOCKING mode and
\* chains back to dmasPresetZeros otherwise.
ConfigureLoopZeros(tcd, bm) ==
  LET t == destination([tcd EXCEPT !.SADDR = ZerosAddr, !.SOFF = 0,
                                   !.BITER = BitTimesPerResetTime], "SHIFTBUF1")
  IN  IF bm = "SINGLE_BUFFER_BLOCKING"
      THEN disableOnCompletion(t)
      ELSE replaceSettingsOnCompletion(t, "PresetZeros")

\* The DMASettings as configureDma(true) leaves them.
ConfiguredSettings(d, bptr, p, n) ==
  LET d1 == [d  EXCEPT !["PresetZeros"] = ConfigurePresetZeros(@)]
      d2 == [d1 EXCEPT !["SetOnes"] = ConfigureSetOnes(@)]
      d3 == ConfigureDataSegments(d2, 0, n, bptr, p.bsz \div 4)
      d4 == [d3 EXCEPT ![DataSegment(n - 1)] = replaceSettingsOnCompletion(@, "SetZeros")]
      d5 == [d4 EXCEPT !["SetZeros"] = ConfigureSetZeros(@)]
  IN  [d5 EXCEPT !["LoopZeros"] = ConfigureLoopZeros(@, p.bm)]

(* ------------------------------------------------------------------ *)
(* Construction                                                       *)
(* ------------------------------------------------------------------ *)

\* The driver This after its constructor, as an object of static storage
\* duration (the members the constructor leaves alone are zero), given the
\* PixelBuffer properties it may be built on.
InitDriver(properties) ==
  /\ ip \in properties
  /\ dmasDataSegmentsCount = SegmentsCount(ip)
  /\ flexIOModule = 0
  /\ pFlex = FALSE
  /\ activeBuffer = 0
  /\ inactiveBuffer = 0
  /\ dmas = [s \in SettingNames |-> EmptyTCD]
  /\ ch = EmptyTCD
  /\ loaded = "none"
  /\ erq = FALSE
  /\ dmaInt = FALSE
  /\ isrAttached = -1
  /\ instances = [m \in Units |-> NoDriver]
  /\ instanceCount = 0
  /\ pllPowerdown \in BOOLEAN
  /\ pc = "idle"
  /\ lastReady = TRUE
  /\ flipsPending = 0
  /\ cyclesSinceFlip = 2
  /\ transferDone = TRUE
  /\ channelTypes = [c \in 0..31 |-> "RGB"]
  /\ bits = {}
  /\ lastOp = NoOp
  /\ lastWritten = <<>>
  /\ writes = 0

\* No other driver object exists yet; the FlexIO units are disabled and the
\* pins are inputs, as after reset; a PLL that is powered has locked.
InitOthers ==
  /\ drv = [d \in Drivers |-> NoObject]
  /\ flexEnabled = [u \in Units |-> FALSE]
  /\ pinMode = [u \in Units |-> "INPUT"]
  /\ lastCall = NoCall
  /\ constructions = 0
  /\ pllLock = ~pllPowerdown

Init ==
  /\ InitDriver({PixelBuffer(l, c, m) : l \in LedCounts, c \in ColorCapabilities, m \in BufferModes})
  /\ InitOthers

(* ------------------------------------------------------------------ *)
(* begin()                                                            *)
(* ------------------------------------------------------------------ *)

\* The checks of begin(), in the order the code makes them: TRUE when begin()
\* returns false.  initialised stands for pFlex != nullptr.
BeginChecks(leds, m, initialised, pinsMapped) ==
  IF leds = 0 THEN TRUE
  ELSE IF m > FLEXIO2 THEN TRUE
  ELSE IF initialised THEN TRUE
  ELSE IF instances[m] # NoDriver THEN TRUE
  ELSE IF instanceCount = 0 /\ ~pllPowerdown THEN TRUE
  ELSE ~pinsMapped

\* The checks of begin() that make it return false, for the driver This.
BeginRejects(m, pinsMapped) == BeginChecks(ip.leds, m, pFlex, pinsMapped)

\* begin() returning false: only the unit given is recorded.
BeginFails ==
  /\ pc = "idle"
  /\ \E m \in 0..(FLEXIO2 + 1), pinsMapped \in BOOLEAN :
       /\ BeginRejects(m, pinsMapped)
       /\ flexIOModule' = m
  /\ UNCHANGED <<lifecycleVars, codecVars>>
  /\ UNCHANGED <<ip, dmasDataSegmentsCount, pFlex, activeBuffer, inactiveBuffer, dmas, ch,
                 loaded, erq, dmaInt, isrAttached, instances, instanceCount, pllPowerdown,
                 pc, lastReady, flipsPending, cyclesSinceFlip, transferDone>>

\* dmaChannel.enable() at the end of configureDma(true)
EnabledAfterConfigure(bm) == bm # "SINGLE_BUFFER_BLOCKING"

\* dmaChannel.attachInterrupt(dmaISRs[flexIOModule]) in DOUBLE_BUFFER mode
InterruptAfterConfigure(bm, m) == IF bm = "DOUBLE_BUFFER" THEN m ELSE -1

\* CCM_ANALOG_PLL_VIDEO_LOCK when "if (! instanceCount) configurePll5(true);" has
\* returned: configurePll5(true) returns only once the bit is set.
LockAfterBegin(count, lock) == IF count = 0 THEN TRUE ELSE lock

\* begin() returning true.
BeginSucceeds ==
  /\ pc = "idle"
  /\ \E m \in 0..(FLEXIO2 + 1) :
       /\ ~BeginRejects(m, TRUE)
       /\ flexIOModule' = m
       /\ instances' = [instances EXCEPT ![m] = This]
       /\ isrAttached' = InterruptAfterConfigure(ip.bm, m)
  /\ activeBuffer' = 0
  /\ inactiveBuffer' = IF ip.bm = "DOUBLE_BUFFER" THEN ip.bsz \div 4 ELSE 0
  /\ pFlex' = TRUE
  /\ pllPowerdown' = IF instanceCount = 0 THEN FALSE ELSE pllPowerdown
  /\ pllLock' = LockAfterBegin(instanceCount, pllLock)
  /\ dmas' = ConfiguredSettings(dmas, activeBuffer', ip, dmasDataSegmentsCount)
  /\ ch' = dmas'["PresetZeros"]
  /\ loaded' = "PresetZeros"
  /\ erq' = EnabledAfterConfigure(ip.bm)
  /\ instanceCount' = instanceCount + 1
  /\ flipsPending' = 0
  /\ cyclesSinceFlip' = 2
  /\ transferDone' = TRUE
  /\ bits' = {}
  /\ lastWritten' = <<>>
  /\ UNCHANGED <<drv, flexEnabled, pinMode, lastCall, constructions>>
  /\ UNCHANGED <<channelTypes, lastOp, writes>>
  /\ UNCHANGED <<ip, dmasDataSegmentsCount, dmaInt, pc, lastReady>>

(* ------------------------------------------------------------------ *)
(* dmaIsr(): the handler of the channel's completion interrupt        *)
(* ------------------------------------------------------------------ *)

\* Mutant of RetargetDataSegments: only the first data segment is rewritten.
RetargetFirstSegmentOnly(d, i, n, bptr) ==
  IF i >= n THEN d ELSE [d EXCEPT ![DataSegment(i)].SADDR = bptr]

\* The loop rewriting the source address of every data segment (i and bptr are its variables).
RECURSIVE RetargetDataSegments(_, _, _, _)
RetargetDataSegments(d, i, n, bptr) ==
  IF i >= n THEN d
  ELSE RetargetDataSegments([d EXCEPT ![DataSegment(i)].SADDR = bptr],
                            i + 1, n, bptr + MaxDMAIterationsPerTCD)

\* Mutant of IsrSettings: the handler forgets to retarget the data segments.
IsrSettingsKeepsSource(d, n, bptr) == [d EXCEPT !["SetZeros"].INTMAJOR = FALSE]

\* Mutant of IsrSettings: the handler forgets to clear the interrupt flag.
IsrSettingsKeepsFlag(d, n, bptr) == RetargetDataSegments(d, 0, n, bptr)

\* The DMASettings as dmaIsr() leaves them: the interrupt flag of dmasSetZeros
\* cleared, the data segments reading from bptr (the active buffer).
IsrSettings(d, n, bptr) ==
  RetargetDataSegments([d EXCEPT !["SetZeros"].INTMAJOR = FALSE], 0, n, bptr)

\* dmaIsr0/dmaIsr1 dispatch to instances[k]->dmaIsr(); the handler is one step
\* for the caller, which it preempts.
dmaIsr ==
  /\ dmaInt
  /\ isrAttached # -1
  /\ instances[isrAttached] = This
  /\ dmas' = IsrSettings(dmas, dmasDataSegmentsCount, activeBuffer)
  /\ dmaInt' = FALSE
  /\ flipsPending' = 0
  /\ UNCHANGED <<lifecycleVars, codecVars>>
  /\ UNCHANGED <<ip, dmasDataSegmentsCount, flexIOModule, pFlex, activeBuffer, inactiveBuffer,
                 ch, loaded, erq, isrAttached, instances, instanceCount, pllPowerdown, pc,
                 lastReady, cyclesSinceFlip, transferDone>>

(* ------------------------------------------------------------------ *)
(* The eDMA channel                                                   *)
(* ------------------------------------------------------------------ *)

\* The channel's TCD after the major loop of tcd completed: the settings tcd
\* links to when it has scatter/gather enabled, else tcd itself.
NextTCD(tcd, d) == IF tcd.ESG THEN d[tcd.DLASTSGA] ELSE tcd

NextLoaded(tcd, from) == IF tcd.ESG THEN tcd.DLASTSGA ELSE from

\* Mutant of ErqAfter: the channel stays enabled whatever DREQ says.
ErqAfterIgnoresDreq(tcd, e) == e

\* DMA_ERQ after the major loop of tcd completed (DREQ clears it).
ErqAfter(tcd, e) == IF tcd.DREQ THEN FALSE ELSE e

\* DMA_INT after the major loop of tcd completed (INTMAJOR raises it).
IntAfter(tcd, i) == i \/ tcd.INTMAJOR

\* The handler runs within the frame gap: it takes well under the
\* BitTimesPerResetTime bit times dmasLoopZeros lasts, so no major loop
\* completes while the interrupt request is pending.
HandlerLatencyMet == ~dmaInt

\* One major loop of the channel's TCD completes: BITER words go from SADDR
\* (advancing by SOFF) to DADDR, then the successor is loaded.
DmaMajorLoop ==
  /\ erq
  /\ HandlerLatencyMet
  /\ ch' = NextTCD(ch, dmas)
  /\ loaded' = NextLoaded(ch, loaded)
  /\ erq' = ErqAfter(ch, erq)
  /\ dmaInt' = IntAfter(ch, dmaInt)
  /\ cyclesSinceFlip' = IF loaded = "LoopZeros" /\ loaded' = "PresetZeros" /\ cyclesSinceFlip < 2
                        THEN cyclesSinceFlip + 1 ELSE cyclesSinceFlip
  /\ transferDone' = IF loaded = "LoopZeros" THEN TRUE ELSE transferDone
  /\ UNCHANGED <<lifecycleVars, codecVars>>
  /\ UNCHANGED <<ip, dmasDataSegmentsCount, flexIOModule, pFlex, activeBuffer, inactiveBuffer,
                 dmas, isrAttached, instances, instanceCount, pllPowerdown, pc, lastReady,
                 flipsPending>>

(* ------------------------------------------------------------------ *)
(* flipBuffers() / flushBuffer()                                      *)
(* ------------------------------------------------------------------ *)

\* if (! pFlex) return;
FlipBeforeBegin ==
  /\ pc = "idle"
  /\ ~pFlex
  /\ UNCHANGED vars

\* SINGLE_BUFFER_BLOCKING: enters while (dmaEnabled(dmaChannel));
FlushBlockingEnter ==
  /\ pc = "idle"
  /\ pFlex
  /\ ip.bm = "SINGLE_BUFFER_BLOCKING"
  /\ pc' = "wait"
  /\ UNCHANGED <<lifecycleVars, codecVars>>
  /\ UNCHANGED <<ip, dmasDataSegmentsCount, flexIOModule, pFlex, activeBuffer, inactiveBuffer,
                 dmas, ch, loaded, erq, dmaInt, isrAttached, instances, instanceCount,
                 pllPowerdown, lastReady, flipsPending, cyclesSinceFlip, transferDone>>

\* SINGLE_BUFFER_BLOCKING: the loop is left once the channel is disabled; then
\* dmaChannel = dmasPresetZeros; arm_dcache_flush(); dmaChannel.enable();
FlushBlockingRetrigger ==
  /\ pc = "wait"
  /\ ~erq
  /\ ch' = dmas["PresetZeros"]
  /\ loaded' = "PresetZeros"
  /\ erq' = TRUE
  /\ pc' = "idle"
  /\ transferDone' = FALSE
  /\ UNCHANGED <<lifecycleVars, codecVars>>
  /\ UNCHANGED <<ip, dmasDataSegmentsCount, flexIOModule, pFlex, activeBuffer, inactiveBuffer,
                 dmas, dmaInt, isrAttached, instances, instanceCount, pllPowerdown, lastReady,
                 flipsPending, cyclesSinceFlip>>

\* Mutant of SwappedPointers: the exchange without the temporary.
SwappedPointersNoTemp(a, i) == <<i, i>>

\* DOUBLE_BUFFER: t = activeBuffer; activeBuffer = inactiveBuffer; inactiveBuffer = t;
\* as <<activeBuffer, inactiveBuffer>> after the exchange
SwappedPointers(a, i) == <<i, a>>

\* DOUBLE_BUFFER: the pointers are exchanged and the newly active half is flushed.
FlipDoubleSwap ==
  /\ pc = "idle"
  /\ pFlex
  /\ ip.bm = "DOUBLE_BUFFER"
  /\ activeBuffer' = SwappedPointers(activeBuffer, inactiveBuffer)[1]
  /\ inactiveBuffer' = SwappedPointers(activeBuffer, inactiveBuffer)[2]
  /\ pc' = "arm"
  /\ flipsPending' = IF flipsPending < 3 THEN flipsPending + 1 ELSE flipsPending
  /\ UNCHANGED <<lifecycleVars, codecVars>>
  /\ UNCHANGED <<ip, dmasDataSegmentsCount, flexIOModule, pFlex, dmas, ch, loaded, erq,
                 dmaInt, isrAttached, instances, instanceCount, pllPowerdown, lastReady,
                 cyclesSinceFlip, transferDone>>

\* Mutant of ArmedSettings: the flag is never set.
ArmedSettingsNever(d) == d

\* Mutant of ArmedSettings: the flag is set on the first data segment.
ArmedSettingsFirstSegment(d) == [d EXCEPT !["Data0"].INTMAJOR = TRUE]

\* dmasSetZeros.TCD->CSR |= DMA_TCD_CSR_INTMAJOR; the other bits of CSR never
\* change after begin(), so the read-modify-write comes to setting the flag.
ArmedSettings(d) == [d EXCEPT !["SetZeros"].INTMAJOR = TRUE]

\* DOUBLE_BUFFER: the completion interrupt of dmasSetZeros is armed; flipBuffers() returns.
FlipDoubleArm ==
  /\ pc = "arm"
  /\ dmas' = ArmedSettings(dmas)
  /\ pc' = "idle"
  /\ cyclesSinceFlip' = 0
  /\ UNCHANGED <<lifecycleVars, codecVars>>
  /\ UNCHANGED <<ip, dmasDataSegmentsCount, flexIOModule, pFlex, activeBuffer, inactiveBuffer,
                 ch, loaded, erq, dmaInt, isrAttached, instances, instanceCount, pllPowerdown,
                 lastReady, flipsPending, transferDone>>

\* SINGLE_BUFFER: arm_dcache_flush() only.
FlushSingle ==
  /\ pc = "idle"
  /\ pFlex
  /\ ip.bm = "SINGLE_BUFFER"
  /\ UNCHANGED vars

(* ------------------------------------------------------------------ *)
(* bufferReady()                                                      *)
(* ------------------------------------------------------------------ *)

\* Mutant of bufferReady: the buffer mode is not looked at.
bufferReadyAnyMode == ~erq

\* return ! (ip->bm == SINGLE_BUFFER_BLOCKING && dmaEnabled(dmaChannel));
bufferReady == ~(ip.bm = "SINGLE_BUFFER_BLOCKING" /\ erq)

BufferReadyCall ==
  /\ pc = "idle"
  /\ lastReady' = bufferReady
  /\ UNCHANGED <<lifecycleVars, codecVars>>
  /\ UNCHANGED <<ip, dmasDataSegmentsCount, flexIOModule, pFlex, activeBuffer, inactiveBuffer,
                 dmas, ch, loaded, erq, dmaInt, isrAttached, instances, instanceCount,
                 pllPowerdown, pc, flipsPending, cyclesSinceFlip, transferDone>>

(* ------------------------------------------------------------------ *)
(* Specifications                                                     *)
(* ------------------------------------------------------------------ *)

Next ==
  \/ BeginFails
  \/ BeginSucceeds
  \/ dmaIsr
  \/ DmaMajorLoop
  \/ FlipBeforeBegin
  \/ FlushBlockingEnter
  \/ FlushBlockingRetrigger
  \/ FlipDoubleSwap
  \/ FlipDoubleArm
  \/ FlushSingle
  \/ BufferReadyCall

Spec == Init /\ [][Next]_vars

\* The hardware keeps requesting transfers and the interrupt controller keeps
\* dispatching the handler; the caller need not act.
FairSpec == Spec /\ WF_vars(DmaMajorLoop) /\ WF_vars(dmaIsr)

(* ------------------------------------------------------------------ *)
(* Vocabulary of the frame cycle                                      *)
(* ------------------------------------------------------------------ *)

DataSegmentSet == {DataSegment(i) : i \in 0..(MaxDataSegments - 1)}

\* Index i of the data segment named s.
SegmentIndex(s) == CHOOSE i \in 0..(MaxDataSegments - 1) : DataSegment(i) = s

\* The channel runs (it is not STOPPED).
Running == pFlex /\ erq

\* The phases of the frame cycle, by the DMASetting the channel executes.
InPrimeGate == Running /\ loaded = "PresetZeros"
InGateHigh == Running /\ loaded = "SetOnes"
InDataStream == Running /\ loaded \in DataSegmentSet
InCloseGate == Running /\ loaded = "SetZeros"
InFrameGap == Running /\ loaded = "LoopZeros"

\* addr lies in the buffer half starting at base.
InHalf(addr, base) == base <= addr /\ addr < base + BufferWords

\* The start of the buffer half the channel's data segment reads.
StreamedBuffer == ch.SADDR - SegmentIndex(loaded) * MaxDMAIterationsPerTCD

DoubleBuffered == pFlex /\ ip.bm = "DOUBLE_BUFFER"

(* ------------------------------------------------------------------ *)
(* C1                                                                 *)
(* ------------------------------------------------------------------ *)

\* C1: in DOUBLE_BUFFER mode, whenever the caller is outside flipBuffers() (and
\* so may write the inactive half) and the channel is in a DATA_STREAM phase,
\* the half being streamed is not the inactive half.
C1_StreamedHalfNeverInactive ==
  (DoubleBuffered /\ pc = "idle" /\ InDataStream) => ~InHalf(ch.SADDR, inactiveBuffer)

(* ------------------------------------------------------------------ *)
(* C2                                                                 *)
(* ------------------------------------------------------------------ *)

\* DATA_STREAM(0) has just been loaded into the channel: the streaming phase begins.
DataStreamBegins == DoubleBuffered /\ InDataStream /\ loaded = DataSegment(0)

NoFlipOutstanding == pc = "idle" /\ ~dmas["SetZeros"].INTMAJOR

SegmentSource == dmas["Data0"].SADDR

CycleSuccessor(s) ==
  IF s = "PresetZeros" THEN "SetOnes"
  ELSE IF s = "SetOnes" THEN DataSegment(0)
  ELSE IF s = "SetZeros" THEN "LoopZeros"
  ELSE IF s = "LoopZeros" THEN "PresetZeros"
  ELSE IF SegmentIndex(s) = dmasDataSegmentsCount - 1 THEN "SetZeros"
  ELSE DataSegment(SegmentIndex(s) + 1)

\* What the step held by the channel transfers: its source, its destination
\* register and its number of words.
StepTransfers ==
  IF loaded = "PresetZeros"
    THEN ch.SADDR = ZerosAddr /\ ch.DADDR = "SHIFTBUFBIS1" /\ ch.BITER = 1
  ELSE IF loaded = "SetOnes"
    THEN ch.SADDR = OnesAddr /\ ch.DADDR = "SHIFTBUF0" /\ ch.BITER = 1
  ELSE IF loaded = "SetZeros"
    THEN ch.SADDR = ZerosAddr /\ ch.DADDR = "SHIFTBUF0" /\ ch.BITER = 1
  ELSE IF loaded = "LoopZeros"
    THEN ch.SADDR = ZerosAddr /\ ch.DADDR = "SHIFTBUF1" /\ ch.SOFF = 0
         /\ ch.BITER = BitTimesPerResetTime
  ELSE /\ SegmentIndex(loaded) < dmasDataSegmentsCount
       /\ ch.DADDR = "SHIFTBUFBIS1" /\ ch.SOFF = 4
       /\ (InHalf(ch.SADDR, activeBuffer) \/ InHalf(ch.SADDR, inactiveBuffer))

\* C5: in every buffer mode each step of the chain transfers what its phase
\* prescribes, a running channel only moves to the successor of its step in the
\* cycle order or stops at the end of FRAME_GAP, and a stopped channel is only
\* restarted at PRIME_GATE.
C5_CycleOrder ==
  /\ [](pFlex => StepTransfers)
  /\ [][(pFlex /\ erq /\ (loaded' # loaded \/ ~erq'))
          => \/ loaded' = CycleSuccessor(loaded) /\ erq'
             \/ loaded = "LoopZeros" /\ loaded' = loaded /\ ~erq']_vars
  /\ [][(pFlex /\ ~erq /\ (loaded' # loaded \/ erq'))
          => loaded' = "PresetZeros" /\ erq']_vars

\* C5 witness: the chain has come round to the last data segment of a
\* three-segment buffer in a later cycle.
C5_Witness ==
  /\ Running
  /\ dmasDataSegmentsCount = 3
  /\ loaded = DataSegment(2)
  /\ cyclesSinceFlip = 1

(* ------------------------------------------------------------------ *)
(* C6                                                                 *)
(* ------------------------------------------------------------------ *)

\* C6: in DOUBLE_BUFFER mode the swap step of flipBuffers() exchanges the two
\* pointers (which differ); after one swap not yet serviced the data segments
\* still read the now inactive buffer, after two they read the active one
\* again; and the handler writes activeBuffer into the data segments.
C6_SwapAndSwapBack ==
  /\ [][(pc = "idle" /\ pc' = "arm")
          => /\ activeBuffer' = inactiveBuffer
             /\ inactiveBuffer' = activeBuffer
             /\ activeBuffer' # activeBuffer]_vars
  /\ []((DoubleBuffered /\ flipsPending = 1) => SegmentSource = inactiveBuffer)
  /\ []((DoubleBuffered /\ flipsPending = 2) => SegmentSource = activeBuffer)
  /\ [][(dmaInt /\ ~dmaInt') => SegmentSource' = activeBuffer]_vars

\* C6 witness: two swaps are outstanding and the handler is about to run.
C6_Witness ==
  /\ DoubleBuffered /\ pc = "idle"
  /\ flipsPending = 2
  /\ dmaInt
  /\ activeBuffer = 0

(* ------------------------------------------------------------------ *)
(* C7                                                                 *)
(* ------------------------------------------------------------------ *)

\* No completion interrupt is armed, loaded into the channel or pending.
Quiet == ~dmas["SetZeros"].INTMAJOR /\ ~ch.INTMAJOR /\ ~dmaInt

FreeRunning == pFlex /\ ip.bm # "SINGLE_BUFFER_BLOCKING"

\* C8: in SINGLE_BUFFER and DOUBLE_BUFFER mode the channel is never stopped
\* after begin(), the end of FRAME_GAP loads PRIME_GATE, and under fair
\* hardware progress the channel enters PRIME_GATE and FRAME_GAP again and again.
C8_FreeRunningNeverStops ==
  /\ [](FreeRunning => erq)
  /\ [][(FreeRunning /\ loaded = "LoopZeros" /\ loaded' # loaded)
          => loaded' = "PresetZeros"]_vars
  /\ (FreeRunning ~> InPrimeGate)
  /\ (FreeRunning ~> InFrameGap)

\* C8 witness: a free-running channel is back in PRIME_GATE after a frame gap.
C8_Witness ==
  /\ FreeRunning
  /\ InPrimeGate
  /\ cyclesSinceFlip = 1

(* ------------------------------------------------------------------ *)
(* C9                                                                 *)
(* ------------------------------------------------------------------ *)

\* begin() succeeded in SINGLE_BUFFER_BLOCKING mode.
CallerPaced == pFlex /\ ip.bm = "SINGLE_BUFFER_BLOCKING"

\* C9: in SINGLE_BUFFER_BLOCKING mode the channel is stopped when begin()
\* returns; it is started only by the re-trigger step of flushBuffer(), at
\* PRIME_GATE; while it runs the chain never loads PRIME_GATE again; and the end
\* of FRAME_GAP stops it.
C9_OneCyclePerFlush ==
  /\ [][(~pFlex /\ pFlex' /\ ip.bm = "SINGLE_BUFFER_BLOCKING") => ~erq']_vars
  /\ [][(CallerPaced /\ ~erq /\ erq')
          => (pc = "wait" /\ pc' = "idle" /\ loaded' = "PresetZeros"
              /\ ch' = dmas["PresetZeros"])]_vars
  /\ [][(CallerPaced /\ erq /\ loaded' # loaded) => loaded' # "PresetZeros"]_vars
  /\ [][(CallerPaced /\ InFrameGap /\ <<ch, loaded, erq>>' # <<ch, loaded, erq>>)
          => (~erq' /\ loaded' = loaded)]_vars

\* C9 witness: the cycle a flush triggered has completed and the channel is stopped.
C9_Witness ==
  /\ CallerPaced
  /\ ~erq
  /\ loaded = "LoopZeros"
  /\ transferDone

(* ------------------------------------------------------------------ *)
(* C10                                                                *)
(* ------------------------------------------------------------------ *)

\* C10: in SINGLE_BUFFER_BLOCKING mode bufferReady() is true exactly when no
\* flush-triggered transfer is in flight, in the other modes it is true in every
\* state; and a call changes nothing but the value it returns.
C10_BufferReady ==
  /\ [](IF ip.bm = "SINGLE_BUFFER_BLOCKING"
        THEN bufferReady <=> transferDone
        ELSE bufferReady)
  /\ [][lastReady' # lastReady
          => /\ lastReady' = bufferReady
             /\ UNCHANGED <<ip, dmasDataSegmentsCount, flexIOModule, pFlex, activeBuffer,
                            inactiveBuffer, dmas, ch, loaded, erq, dmaInt, isrAttached,
                            instances, instanceCount, pllPowerdown, pc, flipsPending,
                            cyclesSinceFlip, transferDone, lifecycleVars, codecVars>>]_vars

\* C10 witness: bufferReady() returned false during the frame gap of a
\* flush-triggered transfer.
C10_Witness ==
  /\ CallerPaced
  /\ InFrameGap
  /\ ~transferDone
  /\ ~bufferReady
  /\ lastReady = FALSE

(* ------------------------------------------------------------------ *)
(* Lifecycle of several driver objects                                *)
(* ------------------------------------------------------------------ *)

\* The variables of the driver This and of its channel, which the lifecycle
\* operations on the objects of drv leave alone.
pipelineVars == <<ip, dmasDataSegmentsCount, flexIOModule, pFlex, activeBuffer, inactiveBuffer,
                  dmas, ch, loaded, erq, dmaInt, isrAttached, pc, lastReady, flipsPending,
                  cyclesSinceFlip, transferDone>>

\* PixelDriver::PixelDriver(ip_): the object comes into being; flexIOModule and
\* flexPins are not initialised and hold whatever its storage held.
Construct(d) ==
  /\ ~drv[d].alive
  /\ constructions < MaxConstructions
  /\ \E leds \in {0, 1}, m \in Units, pins \in PinChoices :
       drv' = [drv EXCEPT ![d] = [alive |-> TRUE, leds |-> leds, pFlex |-> NoUnit,
                                  flexIOModule |-> m, flexPins |-> pins,
                                  dmaConfigured |-> FALSE]]
  /\ lastCall' = [op |-> "construct", d |-> d, ok |-> TRUE]
  /\ constructions' = constructions + 1
  /\ UNCHANGED <<instances, instanceCount, pllPowerdown, flexEnabled, pinMode, pllLock>>
  /\ UNCHANGED <<pipelineVars, codecVars>>

\* begin(flexIOModule_, flexPins_) of driver d returning false: the unit and the
\* pins given are stored in the object before the checks are made.
DriverBeginFails(d) ==
  /\ drv[d].alive
  /\ \E m \in 0..(FLEXIO2 + 1), pins \in PinChoices :
       /\ BeginChecks(drv[d].leds, m, drv[d].pFlex # NoUnit, PinsMapped(m, pins))
       /\ drv' = [drv EXCEPT ![d].flexIOModule = m, ![d].flexPins = pins]
  /\ lastCall' = [op |-> "begin", d |-> d, ok |-> FALSE]
  /\ UNCHANGED <<instances, instanceCount, pllPowerdown, flexEnabled, pinMode, constructions,
                 pllLock>>
  /\ UNCHANGED <<pipelineVars, codecVars>>

\* CCM_ANALOG_PLL_VIDEO_POWERDOWN after "if (! instanceCount) configurePll5(true);"
PowerdownAfterBegin(count, powerdown) == IF count = 0 THEN FALSE ELSE powerdown

\* begin(flexIOModule_, flexPins_) of driver d returning true: the driver is
\* registered, the PLL is configured for a first instance, the pins become
\* outputs, the FlexIO unit is enabled and the DMA channel is configured.
DriverBeginSucceeds(d) ==
  /\ drv[d].alive
  /\ \E m \in 0..(FLEXIO2 + 1), pins \in PinChoices :
       /\ ~BeginChecks(drv[d].leds, m, drv[d].pFlex # NoUnit, PinsMapped(m, pins))
       /\ drv' = [drv EXCEPT ![d].flexIOModule = m, ![d].flexPins = pins,
                             ![d].pFlex = m, ![d].dmaConfigured = TRUE]
       /\ instances' = [instances EXCEPT ![m] = d]
       /\ pinMode' = [pinMode EXCEPT ![pins] = "OUTPUT"]
       /\ flexEnabled' = [flexEnabled EXCEPT ![m] = TRUE]
  /\ pllPowerdown' = PowerdownAfterBegin(instanceCount, pllPowerdown)
  /\ pllLock' = LockAfterBegin(instanceCount, pllLock)
  /\ instanceCount' = instanceCount + 1
  /\ lastCall' = [op |-> "begin", d |-> d, ok |-> TRUE]
  /\ UNCHANGED constructions
  /\ UNCHANGED <<pipelineVars, codecVars>>

\* --instanceCount;
CountAfterDestroy(count) == count - 1

\* configureFlexIO(false) resets the unit pFlex points to.  With pFlex null the
\* register address is computed from a null pointer: the store may land on the
\* CTRL register of either unit (hit) or on nothing the model holds (NoUnit).
FlexEnabledAfterDestroy(enabled, pf, hit) ==
  IF pf # NoUnit THEN [enabled EXCEPT ![pf] = FALSE]
  ELSE IF hit # NoUnit THEN [enabled EXCEPT ![hit] = FALSE]
  ELSE enabled

\* configurePins(false): pinMode(flexPins.*, INPUT)
PinModeAfterDestroy(modes, pins) ==
  IF pins \in Units THEN [modes EXCEPT ![pins] = "INPUT"] ELSE modes

\* if (! instanceCount) configurePll5(false);  with count the decremented value
PowerdownAfterDestroy(count, powerdown) == IF count = 0 THEN TRUE ELSE powerdown

\* CCM_ANALOG_PLL_VIDEO_LOCK after "if (! instanceCount) configurePll5(false);",
\* count being the decremented value: a PLL that is powered down has no lock.
LockAfterDestroy(count, lock) == IF count = 0 THEN FALSE ELSE lock

\* instances[flexIOModule] = nullptr;  a flexIOModule beyond FLEXIO2 (stored by a
\* begin() that returned false) indexes past the array and leaves its elements alone.
RegistryAfterDestroy(registry, m) ==
  IF m \in Units THEN [registry EXCEPT ![m] = NoDriver] ELSE registry

\* PixelDriver::~PixelDriver() of driver d, whether or not begin() ever succeeded on it.
Destroy(d) ==
  /\ drv[d].alive
  /\ instanceCount' = CountAfterDestroy(instanceCount)
  /\ \E hit \in Units \cup {NoUnit} :
       flexEnabled' = FlexEnabledAfterDestroy(flexEnabled, drv[d].pFlex, hit)
  /\ pinMode' = PinModeAfterDestroy(pinMode, drv[d].flexPins)
  /\ pllPowerdown' = PowerdownAfterDestroy(instanceCount', pllPowerdown)
  /\ pllLock' = LockAfterDestroy(instanceCount', pllLock)
  /\ instances' = RegistryAfterDestroy(instances, drv[d].flexIOModule)
  /\ drv' = [drv EXCEPT ![d] = NoObject]
  /\ lastCall' = [op |-> "destroy", d |-> d, ok |-> TRUE]
  /\ UNCHANGED constructions
  /\ UNCHANGED <<pipelineVars, codecVars>>

ConstructAny == \E d \in Drivers : Construct(d)

BeginFailsAny == \E d \in Drivers : DriverBeginFails(d)

BeginSucceedsAny == \E d \in Drivers : DriverBeginSucceeds(d)

DestroyAny == \E d \in Drivers : Destroy(d)

\* The driver This is left as constructed while the objects of drv live.
LifecycleInit ==
  /\ InitDriver({PixelBuffer(1, "TRICOLOR", "SINGLE_BUFFER")})
  /\ InitOthers

LifecycleNext ==
  \/ ConstructAny
  \/ BeginFailsAny
  \/ BeginSucceedsAny
  \/ DestroyAny

LifecycleSpec == LifecycleInit /\ [][LifecycleNext]_vars

(* ------------------------------------------------------------------ *)
(* C11                                                                *)
(* ------------------------------------------------------------------ *)

\* The state the lifecycle operations act on: the driver objects, the registry,
\* the instance count and the hardware.
LifecycleState == <<drv, instances, instanceCount, pllPowerdown, flexEnabled, pinMode>>

\* C11: a begin() call that returns false leaves every field of the driver
\* object (the unit and the pins it recorded included), the registry, the
\* instance count and the hardware as they were before the call.
C11_FailedBeginKeepsNoState ==
  [][(lastCall'.op = "begin" /\ ~lastCall'.ok) => UNCHANGED LifecycleState]_vars

(* ------------------------------------------------------------------ *)
(* C12                                                                *)
(* ------------------------------------------------------------------ *)

\* Driver d is initialised: begin() returned true on it and it was not destroyed.
Initialised(d) == drv[d].alive /\ drv[d].pFlex # NoUnit

\* No two initialised drivers own the same FlexIO unit.
OneOwnerPerUnit ==
  \A d \in Drivers, e \in Drivers :
    (d # e /\ Initialised(d) /\ Initialised(e)) => drv[d].pFlex # drv[e].pFlex

\* A begin() that returns true was made on a unit no instance was registered
\* on, and with the PLL powered down if no instance was counted.
AcceptedOnlyWhenFree ==
  (lastCall'.op = "begin" /\ lastCall'.ok)
    => /\ instances[drv'[lastCall'.d].pFlex] = NoDriver
       /\ instanceCount = 0 => pllPowerdown

\* A begin() on a free unit by a driver with LEDs, not yet initialised, with
\* pins of that unit, is accepted when another instance is counted, whatever
\* the state of the PLL; with no instance counted it is accepted exactly when
\* the PLL is powered down.
AcceptedBesideAnother ==
  \A d \in Drivers, m \in Units :
    (drv[d].alive /\ drv[d].leds > 0 /\ drv[d].pFlex = NoUnit /\ instances[m] = NoDriver)
      => (BeginChecks(drv[d].leds, m, FALSE, PinsMapped(m, m))
            <=> (instanceCount = 0 /\ ~pllPowerdown))

\* C12: at most one initialised driver owns each unit at any time; begin() on
\* a claimed unit returns false; a second instance on the other, free unit is
\* accepted although the PLL already runs, a first instance only when the PLL
\* is idle.
C12_Exclusivity ==
  /\ []OneOwnerPerUnit
  /\ [][AcceptedOnlyWhenFree]_vars
  /\ []AcceptedBesideAnother

(* ------------------------------------------------------------------ *)
(* C13                                                                *)
(* ------------------------------------------------------------------ *)

\* The pipeline of an initialised driver d is intact: its DMA chain is
\* configured, its FlexIO unit is enabled, its pins are outputs, the PLL is
\* powered and the interrupt trampoline of its unit finds it in the registry.
PipelineIntact(d) ==
  /\ drv[d].dmaConfigured
  /\ flexEnabled[drv[d].pFlex]
  /\ pinMode[drv[d].pFlex] = "OUTPUT"
  /\ ~pllPowerdown
  /\ instances[drv[d].pFlex] = d

\* The step destroys a driver on which begin() never returned true.
DestroysUninitialised ==
  /\ lastCall'.op = "destroy"
  /\ drv[lastCall'.d].alive
  /\ ~drv'[lastCall'.d].alive
  /\ drv[lastCall'.d].pFlex = NoUnit

\* C13: destroying a driver whose begin() returned false or was never called
\* leaves the registry, the instance count and the PLL as they were, and every
\* other initialised driver's pipeline intact if it was.
C13_DestroyUninitialisedIsSafe ==
  [][DestroysUninitialised
       => /\ UNCHANGED <<instances, instanceCount, pllPowerdown>>
          /\ \A e \in Drivers :
               (Initialised(e) /\ PipelineIntact(e)) => (Initialised(e)' /\ PipelineIntact(e)')]_vars

(* ------------------------------------------------------------------ *)
(* C14                                                                *)
(* ------------------------------------------------------------------ *)

SomeInitialised == \E d \in Drivers : Initialised(d)

\* The PLL goes from powered down to powered only in a begin() that returns
\* true when no driver was initialised.
PoweredUpOnlyByFirst ==
  (pllPowerdown /\ ~pllPowerdown') => (lastCall'.op = "begin" /\ lastCall'.ok /\ ~SomeInitialised)

\* The PLL goes from powered to powered down only in the destruction of an
\* initialised driver that leaves no driver initialised.
PoweredDownOnlyByLast ==
  (~pllPowerdown /\ pllPowerdown')
    => (lastCall'.op = "destroy" /\ Initialised(lastCall'.d) /\ ~SomeInitialised')

\* C14: the PLL is powered up only by the begin() of the first active instance
\* and powered down only by the destruction of the last one; whenever an
\* initialised driver exists the PLL is powered.
C14_PllFollowsInstances ==
  /\ [][PoweredUpOnlyByFirst]_vars
  /\ [][PoweredDownOnlyByLast]_vars
  /\ [](SomeInitialised => ~pllPowerdown)

(* ------------------------------------------------------------------ *)
(* The pixel store: setLed(), getLed(), setChannelType()              *)
(* ------------------------------------------------------------------ *)

\* Strip length of the pixel store model, in LEDs.
MaxCodecLeds == 2

\* setLed()/setChannelType() calls made in one run of the pixel store model.
MaxWrites == 2

\* enum ChannelType { RGB, GRB, GRBW }
ChannelTypes == {"RGB", "GRB", "GRBW"}

\* Channels tried: the first, the last and the first beyond the 32 outputs.
ChannelSamples == {0, 31, 32}

\* LED indices tried: every index of the longest strip and one beyond it.
LedIndexSamples == 0..MaxCodecLeds

\* Colors tried: zero and 0xB2345679, whose four bytes differ from each other
\* and from their own mirror images.
ColorSamples ==
  {{}, {0, 3, 4, 5, 6, 9, 10, 12, 14, 18, 20, 21, 25, 28, 29, 31}}

\* Values the uninitialised Color c of getLed() may hold.
UninitialisedSamples == {{}, 0..31}

\* word >> n
ShiftRight(word, n) == {b - n : b \in {x \in word : x >= n}}

\* Words a Color of the channel's type occupies: 32 for GRBW, else 24.
TypeDepth(type) == IF type = "GRBW" THEN 32 ELSE 24

\* if (channel > 31 || ledIndex >= ip->leds) return ...;
OutOfRange(channel, ledIndex) == channel > 31 \/ ledIndex >= ip.leds

\* Mutant of SetLedLoop: a 1 is stored with *buffer = channelMask.
RECURSIVE SetLedLoopOverwrites(_, _, _, _, _)
SetLedLoopOverwrites(buf, word, channel, ledMask, ledValue) ==
  IF ledMask < 0 THEN buf
  ELSE SetLedLoopOverwrites(IF ledMask \in ledValue
                            THEN {x \in buf : x[1] # word} \cup {<<word, channel>>}
                            ELSE buf \ {<<word, channel>>},
                            word + 1, channel, ledMask - 1, ledValue)

\* The while (ledMask) loop of setLed(): ledMask is the position of its one
\* 1 bit (-1 once it is shifted out), word is the buffer pointer.
RECURSIVE SetLedLoop(_, _, _, _, _)
SetLedLoop(buf, word, channel, ledMask, ledValue) ==
  IF ledMask < 0 THEN buf
  ELSE SetLedLoop(IF ledMask \in ledValue
                  THEN buf \cup {<<word, channel>>}
                  ELSE buf \ {<<word, channel>>},
                  word + 1, channel, ledMask - 1, ledValue)

\* Mutant of setLed: the three-channel branch takes color.raw without the shift.
setLedUnshifted(buf, channel, ledIndex, color, buffer) ==
  IF OutOfRange(channel, ledIndex) THEN buf
  ELSE IF channelTypes[channel] = "GRBW"
       THEN SetLedLoop(buf, buffer + 32 * ledIndex, channel, 31, color)
       ELSE SetLedLoop(buf, buffer + 24 * ledIndex, channel, 23, color)

\* Mutant of setLed: the three-channel branch advances by 32 words per LED.
setLedStride32(buf, channel, ledIndex, color, buffer) ==
  IF OutOfRange(channel, ledIndex) THEN buf
  ELSE IF channelTypes[channel] = "GRBW"
       THEN SetLedLoop(buf, buffer + 32 * ledIndex, channel, 31, color)
       ELSE SetLedLoop(buf, buffer + 32 * ledIndex, channel, 23, ShiftRight(color, 8))

\* Mutant of setLed: the LED index is not checked.
setLedAnyIndex(buf, channel, ledIndex, color, buffer) ==
  IF channel > 31 THEN buf
  ELSE IF channelTypes[channel] = "GRBW"
       THEN SetLedLoop(buf, buffer + 32 * ledIndex, channel, 31, color)
       ELSE SetLedLoop(buf, buffer + 24 * ledIndex, channel, 23, ShiftRight(color, 8))

\* setLed(channel, ledIndex, color, buffer): the frame buffer it leaves.
setLed(buf, channel, ledIndex, color, buffer) ==
  IF OutOfRange(channel, ledIndex) THEN buf
  ELSE IF channelTypes[channel] = "GRBW"
       THEN SetLedLoop(buf, buffer + 32 * ledIndex, channel, 31, color)
       ELSE SetLedLoop(buf, buffer + 24 * ledIndex, channel, 23, ShiftRight(color, 8))

\* The while (count--) loop of getLed(): word is the buffer pointer, c is c.raw.
RECURSIVE GetLedLoop(_, _, _, _, _)
GetLedLoop(buf, word, channel, count, c) ==
  IF count = 0 THEN c
  ELSE GetLedLoop(buf, word - 1, channel, count - 1,
                  IF <<word - 1, channel>> \in buf
                  THEN ShiftRight(c, 1) \cup {31}
                  ELSE ShiftRight(c, 1))

\* getLed(channel, ledIndex, buffer): the raw of the Color returned, uninit
\* being what the uninitialised local c held.
getLed(buf, channel, ledIndex, buffer, uninit) ==
  IF OutOfRange(channel, ledIndex) THEN {}
  ELSE IF channelTypes[channel] = "GRBW"
       THEN GetLedLoop(buf, buffer + 32 * ledIndex + 32, channel, 32, uninit)
       ELSE GetLedLoop(buf, buffer + 24 * ledIndex + 24, channel, 24, uninit)

\* Mutant of setChannelType: the color capability is not looked at.
setChannelTypeAnyCapability(types, channel, type) ==
  IF channel >= 32 THEN types
  ELSE [types EXCEPT ![channel] = type]

\* setChannelType(channel, type): the channelTypes[] it leaves.
setChannelType(types, channel, type) ==
  IF channel >= 32 THEN types
  ELSE IF type = "GRBW" /\ ip.cc # "QUADCOLOR" THEN types
  ELSE [types EXCEPT ![channel] = type]

\* What is remembered of the Colors written once setLed() ran: the Color
\* written at (buffer, channel, ledIndex) when the arguments were in range.
WrittenAfterSet(written, channel, ledIndex, color, buffer) ==
  IF OutOfRange(channel, ledIndex) THEN written
  ELSE [k \in DOMAIN written \cup {<<buffer, channel, ledIndex>>} |->
          IF k = <<buffer, channel, ledIndex>> THEN color ELSE written[k]]

\* What is remembered of the Colors written once the types became newTypes:
\* the Colors of the channels whose type is the one they were written with.
WrittenAfterType(written, newTypes) ==
  [k \in {x \in DOMAIN written : newTypes[x[2]] = channelTypes[x[2]]} |-> written[k]]

\* The accessors are called between the calls of flipBuffers(), once begin()
\* has set activeBuffer and inactiveBuffer.
AccessorCallable == pc = "idle" /\ pFlex

\* setActiveLed()/setInactiveLed(): setLed() on activeBuffer or inactiveBuffer.
SetLed ==
  /\ AccessorCallable
  /\ writes < MaxWrites
  /\ \E buffer \in {activeBuffer, inactiveBuffer}, channel \in ChannelSamples,
        ledIndex \in LedIndexSamples, color \in ColorSamples :
       /\ bits' = setLed(bits, channel, ledIndex, color, buffer)
       /\ lastWritten' = WrittenAfterSet(lastWritten, channel, ledIndex, color, buffer)
       /\ lastOp' = [op |-> "setLed", buffer |-> buffer, channel |-> channel,
                     ledIndex |-> ledIndex, type |-> "RGB", raw |-> color]
  /\ writes' = writes + 1
  /\ UNCHANGED channelTypes
  /\ UNCHANGED <<pipelineVars, instances, instanceCount, pllPowerdown, lifecycleVars>>

\* getActiveLed()/getInactiveLed(): getLed() on activeBuffer or inactiveBuffer,
\* reading back the channel and the LED index setLed() was just called with.
GetLed ==
  /\ AccessorCallable
  /\ lastOp.op = "setLed"
  /\ \E buffer \in {activeBuffer, inactiveBuffer}, uninit \in UninitialisedSamples :
       lastOp' = [op |-> "getLed", buffer |-> buffer, channel |-> lastOp.channel,
                  ledIndex |-> lastOp.ledIndex, type |-> "RGB",
                  raw |-> getLed(bits, lastOp.channel, lastOp.ledIndex, buffer, uninit)]
  /\ UNCHANGED <<channelTypes, bits, lastWritten, writes>>
  /\ UNCHANGED <<pipelineVars, instances, instanceCount, pllPowerdown, lifecycleVars>>

SetChannelType ==
  /\ AccessorCallable
  /\ writes < MaxWrites
  /\ \E channel \in ChannelSamples, type \in ChannelTypes :
       /\ channelTypes' = setChannelType(channelTypes, channel, type)
       /\ lastOp' = [op |-> "setChannelType", buffer |-> 0, channel |-> channel,
                     ledIndex |-> 0, type |-> type, raw |-> {}]
  /\ lastWritten' = WrittenAfterType(lastWritten, channelTypes')
  /\ writes' = writes + 1
  /\ UNCHANGED bits
  /\ UNCHANGED <<pipelineVars, instances, instanceCount, pllPowerdown, lifecycleVars>>

\* The driver This on a short double-buffered strip: begin() and the accessors;
\* the DMA channel is not stepped.
CodecInit ==
  /\ InitDriver({PixelBuffer(MaxCodecLeds, c, "DOUBLE_BUFFER") : c \in ColorCapabilities})
  /\ InitOthers

CodecNext ==
  \/ BeginSucceeds
  \/ SetChannelType
  \/ SetLed
  \/ GetLed

CodecSpec == CodecInit /\ [][CodecNext]_vars

(* ------------------------------------------------------------------ *)
(* C15                                                                *)
(* ------------------------------------------------------------------ *)

\* getLed() just returned the Color of an LED that setLed() wrote in the same
\* buffer half, the channel's type not having changed since.
ReadBack ==
  /\ lastOp.op = "getLed"
  /\ ~OutOfRange(lastOp.channel, lastOp.ledIndex)
  /\ <<lastOp.buffer, lastOp.channel, lastOp.ledIndex>> \in DOMAIN lastWritten

\* The Color last written to the LED getLed() just read.
WrittenColor == lastWritten[<<lastOp.buffer, lastOp.channel, lastOp.ledIndex>>]

\* C15 as stated: the Color read back is the Color written for a GRBW channel,
\* and the Color written without its top byte (bits 31..24) for a
\* three-channel type.
C15_RoundTripTopByteDiscarded ==
  ReadBack => lastOp.raw = IF channelTypes[lastOp.channel] = "GRBW"
                           THEN WrittenColor
                           ELSE WrittenColor \cap 0..23

\* C15: the Color read back is the Color written for a GRBW channel; for a
\* three-channel type it agrees with the Color written on bits 31..8, the
\* three color bytes, the low byte of the Color written not being stored.
C15_RoundTripColorBytes ==
  ReadBack => IF channelTypes[lastOp.channel] = "GRBW"
              THEN lastOp.raw = WrittenColor
              ELSE lastOp.raw \cap 8..31 = WrittenColor \cap 8..31

\* C15 witness: a Color with 1 bits in its low byte and in its top byte was
\* written to and read back from a three-channel LED, its top byte intact.
C15_Witness ==
  /\ ReadBack
  /\ channelTypes[lastOp.channel] # "GRBW"
  /\ WrittenColor \cap 0..7 # {}
  /\ WrittenColor \cap 24..31 # {}
  /\ lastOp.raw \cap 24..31 = WrittenColor \cap 24..31

(* ------------------------------------------------------------------ *)
(* C16                                                                *)
(* ------------------------------------------------------------------ *)

\* ledValue of setLed(): the bits of a Color its loop stores for a channel type.
StoredValue(color, type) == IF type = "GRBW" THEN color ELSE ShiftRight(color, 8)

\* The layout of the LED written at k = <<buffer, channel, ledIndex>>: bit
\* channel of word ledIndex * bitDepth + b of the buffer half is 1 iff bit
\* bitDepth-1-b of value is 1.
LayoutOf(k, value) ==
  LET depth == TypeDepth(channelTypes[k[2]])
  IN  \A b \in 0..(depth - 1) :
        <<k[1] + k[3] * depth + b, k[2]>> \in bits <=> (depth - 1 - b) \in value

\* C16 as stated: after any sequence of writes the bits of every LED written
\* follow the layout, taken from bit bitDepth-1-b of the Color last written.
C16_LayoutOfColorWritten ==
  \A k \in DOMAIN lastWritten : LayoutOf(k, lastWritten[k])

\* C16: after any sequence of writes the bits of every LED written follow the
\* layout, taken from bit bitDepth-1-b of the value stored for the Color last
\* written: the Color itself for a GRBW channel, the Color shifted right by 8
\* (bit 31-b of the Color) for a three-channel type.
C16_LayoutOfStoredValue ==
  \A k \in DOMAIN lastWritten :
    LayoutOf(k, StoredValue(lastWritten[k], channelTypes[k[2]]))

\* C16 witness: on a TRICOLOR buffer, after two writes, LED 1 of channel 0 holds
\* 0xB2345679 in bit 0 of words 24..47, word 24 carrying bit 31 and word 47 bit 8.
C16_Witness ==
  /\ ip.cc = "TRICOLOR"
  /\ writes = 2
  /\ <<0, 0, 1>> \in DOMAIN lastWritten
  /\ lastWritten[<<0, 0, 1>>] = {0, 3, 4, 5, 6, 9, 10, 12, 14, 18, 20, 21, 25, 28, 29, 31}
  /\ {w \in 24..47 : <<w, 0>> \in bits} = {24, 26, 27, 30, 34, 35, 37, 41, 43, 45, 46}
  /\ \E k \in DOMAIN lastWritten : k # <<0, 0, 1>>

(* ------------------------------------------------------------------ *)
(* C17                                                                *)
(* ------------------------------------------------------------------ *)

\* The bits of the frame buffer that belong to the LED of the setLed() call op:
\* bit channel of the bitDepth words from buffer + ledIndex * bitDepth.
BitsOfLed(op) ==
  LET depth == TypeDepth(channelTypes[op.channel])
  IN  {<<op.buffer + op.ledIndex * depth + b, op.channel>> : b \in 0..(depth - 1)}

\* The step is a setLed() call.
IsSetLedStep == writes' = writes + 1 /\ lastOp'.op = "setLed"

\* C17: a setLed() call with arguments in range changes no bit of the frame
\* buffer (both halves) other than bit channel of the bitDepth consecutive
\* words starting at ledIndex * bitDepth of the half written.
C17_WriteChangesOnlyItsBits ==
  [][(IsSetLedStep /\ ~OutOfRange(lastOp'.channel, lastOp'.ledIndex))
       => (bits' \ BitsOfLed(lastOp')) = (bits \ BitsOfLed(lastOp'))]_vars

\* C17 witness: setLed() wrote 1 bits into words of the second buffer half
\* where another channel has 1 bits.
C17_Witness ==
  /\ lastOp.op = "setLed"
  /\ ~OutOfRange(lastOp.channel, lastOp.ledIndex)
  /\ BitsOfLed(lastOp) \cap bits # {}
  /\ \E x \in bits : x[2] # lastOp.channel /\ <<x[1], lastOp.channel>> \in BitsOfLed(lastOp)
  /\ ip.bm = "DOUBLE_BUFFER"
  /\ lastOp.buffer = BufferWords

(* ------------------------------------------------------------------ *)
(* C18                                                                *)
(* ------------------------------------------------------------------ *)

\* C18: a setLed() call with channel > 31 or ledIndex >= ip->leds changes no
\* bit of the frame buffer, and a getLed() call with such arguments returns the
\* zero Color, on activeBuffer and on inactiveBuffer.
C18_OutOfRangeIsInert ==
  /\ [][(IsSetLedStep /\ OutOfRange(lastOp'.channel, lastOp'.ledIndex)) => bits' = bits]_vars
  /\ []((lastOp.op = "getLed" /\ OutOfRange(lastOp.channel, lastOp.ledIndex)) => lastOp.raw = {})

\* C18 witness: with 1 bits in the frame buffer, getLed() on inactiveBuffer was
\* called with an LED index beyond the strip, after setLed() with the same.
C18_Witness ==
  /\ lastOp.op = "getLed"
  /\ lastOp.channel <= 31
  /\ lastOp.ledIndex >= ip.leds
  /\ ip.bm = "DOUBLE_BUFFER"
  /\ lastOp.buffer = inactiveBuffer
  /\ writes = 2
  /\ bits # {}
  /\ lastOp.raw = {}

(* ------------------------------------------------------------------ *)
(* C19                                                                *)
(* ------------------------------------------------------------------ *)

\* A channel is GRBW only on a QUADCOLOR buffer.
FourChannelOnlyIfCapable ==
  \A c \in 0..31 : channelTypes[c] = "GRBW" => ip.cc = "QUADCOLOR"

\* The step is a setChannelType() call that asks for GRBW on a buffer that is
\* not QUADCOLOR, or names a channel beyond 31.
IsRefusedTypeStep ==
  /\ writes' = writes + 1
  /\ lastOp'.op = "setChannelType"
  /\ lastOp'.channel >= 32 \/ (lastOp'.type = "GRBW" /\ ip.cc # "QUADCOLOR")

\* Every word setLed()/getLed() reach with arguments in range lies inside the
\* buffer half they are given, which has BufferWords words: the first word of
\* LED i is buffer + i * depth and the last one buffer + i * depth + depth - 1,
\* for the depth of each type some channel has.
AccessesInsideHalf ==
  \A buffer \in {activeBuffer, inactiveBuffer}, i \in 0..(ip.leds - 1) :
    \A depth \in {TypeDepth(channelTypes[c]) : c \in 0..31} :
      /\ buffer + i * depth >= buffer
      /\ buffer + i * depth + depth - 1 < buffer + BufferWords

SegmentLedCounts == {0, 1, 1366, 4095, 4096, 5462}

SegmentsInit ==
  /\ InitDriver({PixelBuffer(l, c, m) : l \in SegmentLedCounts, c \in ColorCapabilities,
                                        m \in BufferModes})
  /\ InitOthers

\* The driver This and its channel, on strips of these lengths.
SegmentsSpec == SegmentsInit /\ [][Next]_vars

\* ceil(bufferWords / MaxDMAIterationsPerTCD)
SegmentsNeeded == (BufferWords + MaxDMAIterationsPerTCD - 1) \div MaxDMAIterationsPerTCD

\* Words the data segments 0..n-1 of the configured chain transfer.
RECURSIVE ChainWords(_)
ChainWords(n) == IF n = 0 THEN 0 ELSE ChainWords(n - 1) + dmas[DataSegment(n - 1)].BITER

\* C20: the number of data segments of a driver is ceil(bufferWords /
\* MaxDMAIterationsPerTCD) capped at 4, for every buffer length; a buffer that
\* needs more than 4 segments never yields an initialised driver, so the chain
\* of an initialised driver covers the whole buffer half.
C20_SegmentsCoverBufferOrFail ==
  /\ dmasDataSegmentsCount =
       (IF SegmentsNeeded > MaxDataSegments THEN MaxDataSegments ELSE SegmentsNeeded)
  /\ pFlex => SegmentsNeeded <= MaxDataSegments
  /\ pFlex => ChainWords(dmasDataSegmentsCount) = BufferWords

(* ------------------------------------------------------------------ *)
(* C21                                                                *)
(* ------------------------------------------------------------------ *)

\* Words the claim gives the last data segment: bufferWords mod
\* MaxDMAIterationsPerTCD, or MaxDMAIterationsPerTCD when that is zero.
LastSegmentWords ==
  IF BufferWords % MaxDMAIterationsPerTCD = 0
  THEN MaxDMAIterationsPerTCD
  ELSE BufferWords % MaxDMAIterationsPerTCD

\* The first word data segment i reads and the word after the last one it
\* reads, relative to the start of the half the chain reads.
SegmentFirst(i) == dmas[DataSegment(i)].SADDR - SegmentSource

SegmentEnd(i) == SegmentFirst(i) + dmas[DataSegment(i)].BITER

\* The chain reads one of the two buffer halves from its first word.
ChainReadsAHalf == SegmentSource \in {activeBuffer, inactiveBuffer}

\* C21: in an initialised driver, for every buffer length, data segment i reads
\* from word i * MaxDMAIterationsPerTCD of a buffer half; every segment but the
\* last transfers MaxDMAIterationsPerTCD words; the last transfers bufferWords
\* mod MaxDMAIterationsPerTCD words, or MaxDMAIterationsPerTCD when that is
\* zero, never none; and each segment ends where the next begins, the last at
\* word bufferWords, so that every word of the half is transferred once in
\* ascending order.
C21_SegmentsPartitionBuffer ==
  pFlex =>
    /\ ChainReadsAHalf
    /\ \A i \in 0..(dmasDataSegmentsCount - 1) :
         /\ SegmentFirst(i) = i * MaxDMAIterationsPerTCD
         /\ dmas[DataSegment(i)].SOFF = 4
         /\ dmas[DataSegment(i)].BITER > 0
         /\ i < dmasDataSegmentsCount - 1
              => /\ dmas[DataSegment(i)].BITER = MaxDMAIterationsPerTCD
                 /\ SegmentEnd(i) = SegmentFirst(i + 1)
    /\ dmas[DataSegment(dmasDataSegmentsCount - 1)].BITER = LastSegmentWords
    /\ SegmentEnd(dmasDataSegmentsCount - 1) = BufferWords

(* ------------------------------------------------------------------ *)
(* Waiting on the hardware: begin() in steps                          *)
(* ------------------------------------------------------------------ *)

\* begin() of a first instance up to the loop of configurePll5(true): the
\* checks passed, the driver is registered, the buffers are cleared, pFlex is
\* set and the PLL is powered up; the caller enters
\* while (! (CCM_ANALOG_PLL_VIDEO & CCM_ANALOG_PLL_VIDEO_LOCK));
BeginAwaitsLock ==
  /\ pc = "idle"
  /\ instanceCount = 0
  /\ \E m \in 0..(FLEXIO2 + 1) :
       /\ ~BeginRejects(m, TRUE)
       /\ flexIOModule' = m
       /\ instances' = [instances EXCEPT ![m] = This]
  /\ activeBuffer' = 0
  /\ inactiveBuffer' = IF ip.bm = "DOUBLE_BUFFER" THEN ip.bsz \div 4 ELSE 0
  /\ bits' = {}
  /\ lastWritten' = <<>>
  /\ pFlex' = TRUE
  /\ pllPowerdown' = FALSE
  /\ pllLock' = FALSE
  /\ pc' = "lock"
  /\ UNCHANGED <<drv, flexEnabled, pinMode, lastCall, constructions>>
  /\ UNCHANGED <<channelTypes, lastOp, writes>>
  /\ UNCHANGED <<ip, dmasDataSegmentsCount, dmas, ch, loaded, erq, dmaInt, isrAttached,
                 instanceCount, lastReady, flipsPending, cyclesSinceFlip, transferDone>>

\* The PLL, powered up, reaches lock and sets CCM_ANALOG_PLL_VIDEO_LOCK.
PllLocks ==
  /\ ~pllPowerdown
  /\ ~pllLock
  /\ pllLock' = TRUE
  /\ UNCHANGED <<drv, flexEnabled, pinMode, lastCall, constructions>>
  /\ UNCHANGED <<codecVars, pipelineVars, instances, instanceCount, pllPowerdown>>

\* begin() from the end of the loop of configurePll5(true): configurePins(true),
\* configureFlexIO(true), configureDma(true), ++instanceCount, return true.
BeginCompletes ==
  /\ pc = "lock"
  /\ pllLock
  /\ isrAttached' = InterruptAfterConfigure(ip.bm, flexIOModule)
  /\ dmas' = ConfiguredSettings(dmas, activeBuffer, ip, dmasDataSegmentsCount)
  /\ ch' = dmas'["PresetZeros"]
  /\ loaded' = "PresetZeros"
  /\ erq' = EnabledAfterConfigure(ip.bm)
  /\ instanceCount' = instanceCount + 1
  /\ flipsPending' = 0
  /\ cyclesSinceFlip' = 2
  /\ transferDone' = TRUE
  /\ pc' = "idle"
  /\ UNCHANGED <<lifecycleVars, codecVars>>
  /\ UNCHANGED <<ip, dmasDataSegmentsCount, flexIOModule, pFlex, activeBuffer, inactiveBuffer,
                 dmaInt, instances, pllPowerdown, lastReady>>

\* The operations of Next, begin() being taken in the steps above: the driver
\* This is the only one, so its begin() is that of a first instance.
BlockingNext ==
  \/ BeginFails
  \/ BeginAwaitsLock
  \/ PllLocks
  \/ BeginCompletes
  \/ dmaIsr
  \/ DmaMajorLoop
  \/ FlipBeforeBegin
  \/ FlushBlockingEnter
  \/ FlushBlockingRetrigger
  \/ FlipDoubleSwap
  \/ FlipDoubleArm
  \/ FlushSingle
  \/ BufferReadyCall

BlockingSpec == Init /\ [][BlockingNext]_vars

\* The hardware makes progress (DMA requests, interrupt dispatch, PLL lock) and
\* the caller's thread, once inside begin() or flipBuffers(), keeps executing.
BlockingFairSpec ==
  /\ BlockingSpec
  /\ WF_vars(DmaMajorLoop)
  /\ WF_vars(dmaIsr)
  /\ WF_vars(PllLocks)
  /\ WF_vars(BeginCompletes)
  /\ WF_vars(FlushBlockingRetrigger)
  /\ WF_vars(FlipDoubleArm)

(* ------------------------------------------------------------------ *)
(* C22                                                                *)
(* ------------------------------------------------------------------ *)

\* The caller is held in a loop that polls the hardware:
\* while (dmaEnabled(dmaChannel)); of flipBuffers() or
\* while (! (CCM_ANALOG_PLL_VIDEO & CCM_ANALOG_PLL_VIDEO_LOCK)); of configurePll5().
Waiting ==
  \/ pc = "wait" /\ erq
  \/ pc = "lock" /\ ~pllLock

\* The caller is inside flushBuffer() of SINGLE_BUFFER_BLOCKING mode.
InBlockingFlush == pc = "wait" /\ CallerPaced

\* flushBuffer() in SINGLE_BUFFER_BLOCKING mode is held exactly while the
\* transfer triggered before is in flight, it is released by nothing but the
\* end of that cycle's FRAME_GAP, and it is not held at all when bufferReady()
\* was true at the call.
FlushSpinsWhileInFlight ==
  /\ [](InBlockingFlush => (Waiting <=> ~transferDone))
  /\ [](InBlockingFlush => (ENABLED FlushBlockingRetrigger <=> transferDone))
  /\ [][(InBlockingFlush /\ Waiting /\ ~Waiting') => (InFrameGap /\ pc' = "wait")]_vars
  /\ [][(pc = "idle" /\ pc' = "wait" /\ bufferReady) => ~Waiting']_vars

\* flipBuffers()/flushBuffer() before a successful begin(), in SINGLE_BUFFER
\* mode and in DOUBLE_BUFFER mode can take each of their steps in every state
\* they are in, and never enter the loop of SINGLE_BUFFER_BLOCKING mode.
OtherFlipsNeverWait ==
  /\ []((pc = "idle" /\ ~pFlex) => ENABLED FlipBeforeBegin)
  /\ []((pc = "idle" /\ pFlex /\ ip.bm = "SINGLE_BUFFER") => ENABLED FlushSingle)
  /\ []((pc = "idle" /\ pFlex /\ ip.bm = "DOUBLE_BUFFER") => ENABLED FlipDoubleSwap)
  /\ [](pc = "arm" => (ip.bm = "DOUBLE_BUFFER" /\ ENABLED FlipDoubleArm))
  /\ [](pc = "wait" => CallerPaced)

\* Under fair progress every call of flipBuffers()/flushBuffer() returns.
FlipsReturn ==
  /\ (pc = "wait") ~> (pc = "idle")
  /\ (pc = "arm") ~> (pc = "idle")

\* C22 as stated: the caller waits on the hardware nowhere but in flushBuffer()
\* of SINGLE_BUFFER_BLOCKING mode, which spins exactly while the transfer
\* triggered before is in flight and returns under fair hardware progress; the
\* other flipBuffers()/flushBuffer() calls return without waiting.
C22_OnlyBlockingFlushWaits ==
  /\ [](Waiting => InBlockingFlush)
  /\ FlushSpinsWhileInFlight
  /\ OtherFlipsNeverWait
  /\ FlipsReturn

\* C22 amended: the caller waits on the hardware in flushBuffer() of
\* SINGLE_BUFFER_BLOCKING mode, which spins exactly while the transfer triggered
\* before is in flight and returns under fair hardware progress, and in begin()
\* of a first instance, which spins until the PLL it powered up reports lock
\* and then returns; the other flipBuffers()/flushBuffer() calls return without
\* waiting.
C22_FlushAndBeginWait ==
  /\ [](Waiting => (InBlockingFlush \/ (pc = "lock" /\ ~pllPowerdown)))
  /\ [](pc = "lock" => (ENABLED BeginCompletes <=> pllLock))
  /\ (pc = "lock") ~> (pc = "idle" /\ pFlex)
  /\ FlushSpinsWhileInFlight
  /\ OtherFlipsNeverWait
  /\ FlipsReturn

\* C22 witness: flushBuffer() spins while the transfer triggered by the flush
\* before it is in its frame gap.
C22_Witness ==
  /\ InBlockingFlush
  /\ Waiting
  /\ InFrameGap
  /\ ~transferDone
  /\ pllLock

(* ------------------------------------------------------------------ *)
(* C23                                                                *)
(* ------------------------------------------------------------------ *)

\* Every data segment in memory reads from its offset of the active buffer.
SegmentsAtActive ==
  \A i \in 0..(dmasDataSegmentsCount - 1) :
    dmas[DataSegment(i)].SADDR = activeBuffer + i * MaxDMAIterationsPerTCD

\* Once flipBuffers() is called no more, the data segments come to read the
\* active buffer and go on doing so.
SegmentsSettleAtActive ==
  <>[](pc = "idle") => <>[](DoubleBuffered => SegmentsAtActive)

\* C23 as stated: in DOUBLE_BUFFER mode, in every state where the interrupt flag
\* is clear in dmasSetZeros and in the channel's copy and the handler is not
\* pending, data segment i reads from activeBuffer + i *
\* MaxDMAIterationsPerTCD; and after the last flipBuffers() the data segments
\* eventually read the active buffer for good.
C23_SegmentsAtActiveWhenQuiet ==
  /\ []((DoubleBuffered /\ Quiet) => SegmentsAtActive)
  /\ SegmentsSettleAtActive

\* C23 amended: the same in every such state in which the caller is not inside
\* flipBuffers(), between the exchange of the pointers and the setting of the
\* flag.
C23_SegmentsAtActiveWhenSettled ==
  /\ []((DoubleBuffered /\ Quiet /\ pc = "idle") => SegmentsAtActive)
  /\ SegmentsSettleAtActive

\* C23 witness: after a serviced swap both segments of a two-segment chain read
\* the second half, nothing being armed or pending, during a later DATA_STREAM.
C23_Witness ==
  /\ DoubleBuffered /\ pc = "idle"
  /\ Quiet
  /\ dmasDataSegmentsCount = 2
  /\ activeBuffer = BufferWords
  /\ dmas[DataSegment(1)].SADDR = BufferWords + MaxDMAIterationsPerTCD
  /\ loaded = DataSegment(1)

====
